---- MODULE Spec2Model ----
(***************************************************************************)
(* ValueSnap: the persona image generator (generate_ai_images.py) and the  *)
(* HTML patcher (update_persona_images.py), as state machines.             *)
(*                                                                         *)
(* The image provider, the download, the file system and the wall clock    *)
(* are the environment: each call draws their answers from small sets.     *)
(***************************************************************************)
EXTENDS Integers, Sequences, FiniteSets, TLC

\* ------------------------------------------------------------------ bounds
MaxTime == 2        \* the wall clock runs over 0..MaxTime (seconds)
MaxCalls == 2       \* direct calls of generate_consumer_image in SpecGen
MaxResults == 5     \* longest outcome list handed to save_generation_report

\* -------------------------------------------------------------- the registry
\* self.consumer_personas: the keys, in dict (insertion) order.
consumer_personas ==
    << "estate_inheritor", "reseller_entrepreneur",
       "antique_collector", "small_business_owner" >>

PersonaKeys == { consumer_personas[n] : n \in 1..Len(consumer_personas) }

\* persona['name']
PersonaName(k) ==
    CASE k = "estate_inheritor"      -> "Estate Inheritor"
      [] k = "reseller_entrepreneur" -> "Reseller Entrepreneur"
      [] k = "antique_collector"     -> "Antique Collector"
      [] k = "small_business_owner"  -> "Small Business Owner"

\* A key split at its underscores: the tokens of a file name are its
\* underscore-separated parts.
KeyParts(k) ==
    CASE k = "estate_inheritor"      -> << "estate", "inheritor" >>
      [] k = "reseller_entrepreneur" -> << "reseller", "entrepreneur" >>
      [] k = "antique_collector"     -> << "antique", "collector" >>
      [] k = "small_business_owner"  -> << "small", "business", "owner" >>
      [] OTHER                       -> << k >>

\* Keys callers pass to generate_consumer_image: the registry's and one that
\* is not in it (test_invalid_persona_key).
CallKeys == PersonaKeys \cup { "invalid_persona" }

\* ---------------------------------------------------------- the environment
NoFile == [decodes |-> FALSE, width |-> 0, height |-> 0]
Image(w, h) == [decodes |-> TRUE, width |-> w, height |-> h]

\* What a download can hold: bytes PIL cannot decode, or an image of some size.
Contents == { NoFile, Image(128, 128), Image(256, 256) }

\* One call's answers: the provider, requests.get/raise_for_status, open(),
\* and the bytes downloaded.
Envs == [ api : {"ok", "error"}, download : {"ok", "error"},
          open : {"ok", "error"}, content : Contents ]

\* datetime.now().strftime("%Y%m%d_%H%M%S"): a date part and a time part.
strftime(t) == << t \div 86400, t % 86400 >>

VARIABLES
    clock,      \* the wall clock
    files,      \* generated_images/: file name -> [data, mtime]
    apiCalls,   \* calls made to client.images.generate
    ncalls,     \* direct calls of generate_consumer_image made
    last,       \* the outcome of the last direct call
    pc,         \* generate_all_personas / main: "idle", "loop", "done", "end",
                \* or the exit status of main: "exit0", "exit1"
    i,          \* the loop index of generate_all_personas (1-based)
    results,    \* the list generate_all_personas builds
    log,        \* the attempts and sleeps of the running batch, in order
    delay,      \* the delay argument of the running batch
    given,      \* the list last handed to save_generation_report
    report,     \* the last report save_generation_report wrote
    html,       \* index.html on disk: a document, or Absent
    backups,    \* index.backup_<timestamp>.html: timestamp -> document
    nops,       \* patcher operations run
    op,         \* what the last patcher operation did
    waitlist,   \* waitlist.txt: the lines appended, in order
    response,   \* what join_waitlist answered last
    nreq        \* requests POST /api/waitlist has served

genVars == << files, apiCalls, ncalls, last, pc, i, results, log, delay, given, report >>

patchVars == << html, backups, nops, op >>

webVars == << waitlist, response, nreq >>

vars == << clock, files, apiCalls, ncalls, last, pc, i, results, log, delay, given, report,
           html, backups, nops, op, waitlist, response, nreq >>

\* The waitlist before any request: no line, no answer.
NoResponse == [ status |-> 0, success |-> FALSE, message |-> "" ]

InitWeb ==
    /\ waitlist = << >>
    /\ response = NoResponse
    /\ nreq = 0

\* ------------------------------------------------- generate_consumer_image
\* Mutant: the key is cut at its first underscore.
Filename_FirstPartOnly(persona_key, timestamp) ==
    [ stem |-> << Head(KeyParts(persona_key)) >> \o timestamp, ext |-> "png" ]

\* filename = f"{persona_key}_{timestamp}.png"
Filename(persona_key, timestamp) ==
    [ stem |-> KeyParts(persona_key) \o timestamp, ext |-> "png" ]

\* open(file_path, 'wb'); f.write(content): creates or overwrites; the file
\* system stamps the modification time.
WriteFile(dir, name, content, now) ==
    [ n \in DOMAIN dir \cup {name} |->
        IF n = name THEN [ data |-> content, mtime |-> now ] ELSE dir[n] ]

\* The except clause of the outer try: the wrapped error.
Wrapped(persona_key, cause) ==
    << "Failed to generate image for", PersonaName(persona_key), cause >>

Raise(kind, error, dir, api) ==
    [ raised |-> kind, error |-> error, result |-> << >>, dir |-> dir, api |-> api ]

\* Mutant: the registry check made only after the provider was called.
UnknownPersona_AfterProviderCall(persona_key, dir) ==
    Raise("ValueError", << "Unknown persona", persona_key >>, dir, 1)

\* if persona_key not in self.consumer_personas: raise ValueError(...), before
\* anything else is done.
UnknownPersona(persona_key, dir) ==
    Raise("ValueError", << "Unknown persona", persona_key >>, dir, 0)

\* The directory after a failed verification.
AfterVerifyFailure(dir, name, content, now) == WriteFile(dir, name, content, now)

\* Mutant: the saved file is not verified.
VerifyImage_Skipped(content) == TRUE

\* The check made on the decoded image before a result is returned.
VerifyImage(content) == content.decodes

\* generate_consumer_image(persona_key) at time now, in directory dir, with the
\* environment answering env: what is raised or returned, the directory
\* afterwards, and the number of provider calls made.
generate_consumer_image(persona_key, env, now, dir) ==
    IF persona_key \notin PersonaKeys
    THEN UnknownPersona(persona_key, dir)
    ELSE IF env.api = "error"
    THEN Raise("Exception", Wrapped(persona_key, "API Error"), dir, 1)
    ELSE LET timestamp == strftime(now)
             filename  == Filename(persona_key, timestamp)
         IN  IF env.download = "error"
             THEN Raise("Exception", Wrapped(persona_key, "Download Error"), dir, 1)
             ELSE IF env.open = "error"
             THEN Raise("Exception", Wrapped(persona_key, "Open Error"), dir, 1)
             ELSE IF ~VerifyImage(env.content)
             THEN Raise("Exception",
                        Wrapped(persona_key, "Failed to verify saved image"),
                        AfterVerifyFailure(dir, filename, env.content, now), 1)
             ELSE [ raised |-> "none", error |-> << >>,
                    result |-> [ persona_key  |-> persona_key,
                                 persona_name |-> PersonaName(persona_key),
                                 filename     |-> filename,
                                 size         |-> << env.content.width, env.content.height >>,
                                 timestamp    |-> timestamp ],
                    dir |-> WriteFile(dir, filename, env.content, now),
                    api |-> 1 ]

NoCall == [ key |-> "", raised |-> "none", error |-> << >>, result |-> << >>,
            env |-> [api |-> "ok", download |-> "ok", open |-> "ok", content |-> NoFile],
            filename |-> << >> ]

InitGen ==
    /\ InitWeb
    /\ clock = 0
    /\ files = << >>
    /\ apiCalls = 0
    /\ ncalls = 0
    /\ last = NoCall
    /\ pc = "idle"
    /\ i = 1
    /\ results = << >>
    /\ log = << >>
    /\ delay = 0
    /\ given = << >>
    /\ report = << >>
    /\ html = [ exists |-> FALSE ]
    /\ backups = << >>
    /\ nops = 0
    /\ op = [ name |-> "none" ]

\* A caller calls generate_consumer_image(key); the call takes dt seconds up to
\* the point where the time stamp is read.
GenerateCall ==
    /\ ncalls < MaxCalls
    /\ \E key \in CallKeys, env \in Envs, dt \in 0..1 :
         /\ clock + dt <= MaxTime
         /\ LET r == generate_consumer_image(key, env, clock + dt, files)
            IN  /\ files' = r.dir
                /\ apiCalls' = apiCalls + r.api
                /\ last' = [ key |-> key, raised |-> r.raised, error |-> r.error,
                             result |-> r.result, env |-> env,
                             filename |-> Filename(key, strftime(clock + dt)) ]
         /\ clock' = clock + dt
    /\ ncalls' = ncalls + 1
    /\ UNCHANGED << pc, i, results, log, delay, given, report, patchVars, webVars >>

NextGen == GenerateCall

SpecGen == InitGen /\ [][NextGen]_vars

\* --------------------------------------------------- generate_all_personas
Attempt(key) == << "attempt", key >>
Sleep(d) == << "sleep", d >>

\* The record appended for a persona whose generation raised.
ErrorRecord(persona_key, e, now) ==
    [ persona_key |-> persona_key, error |-> e, timestamp |-> strftime(now) ]

\* if i < len(self.consumer_personas) - 1 (0-based i): n is the 1-based index.
NotLast(n) == n < Len(consumer_personas)

\* The sleeps one loop iteration makes after its attempt: r is what
\* generate_consumer_image did.
SleepsAfter(n, r, d) ==
    IF r.raised = "none" /\ NotLast(n) THEN << Sleep(d) >> ELSE << >>

\* Mutant: a failed persona leaves no record.
Appended_DropFailures(persona_key, r, now) ==
    IF r.raised = "none" THEN << r.result >> ELSE << >>

\* What one loop iteration appends to results.
Appended(persona_key, r, now) ==
    IF r.raised = "none" THEN << r.result >>
    ELSE << ErrorRecord(persona_key, r.error, now) >>

\* Mutant: the first failure ends the batch.
LoopContinues_AbortOnFailure(n, r) == r.raised = "none" /\ n < Len(consumer_personas)

\* Whether the loop goes on to the next persona after iteration n.
LoopContinues(n, r) == n < Len(consumer_personas)

\* generate_all_personas(delay=d) is called.
StartBatch ==
    /\ pc = "idle"
    /\ \E d \in {0, 2} : delay' = d
    /\ pc' = "loop"
    /\ i' = 1
    /\ results' = << >>
    /\ log' = << >>
    /\ UNCHANGED << clock, files, apiCalls, ncalls, last, given, report, patchVars, webVars >>

\* One iteration of the for loop: the try block and its except clause.
BatchStep ==
    /\ pc = "loop"
    /\ \E env \in Envs, dt \in 0..1 :
         /\ clock + dt <= MaxTime
         /\ LET persona_key == consumer_personas[i]
                now == clock + dt
                r   == generate_consumer_image(persona_key, env, now, files)
            IN  /\ files' = r.dir
                /\ apiCalls' = apiCalls + r.api
                /\ results' = results \o Appended(persona_key, r, now)
                /\ log' = log \o (IF r.api > 0 THEN << Attempt(persona_key) >> ELSE << >>)
                               \o SleepsAfter(i, r, delay)
                /\ pc' = IF LoopContinues(i, r) THEN "loop" ELSE "done"
         /\ clock' = clock + dt
    /\ i' = i + 1
    /\ UNCHANGED << ncalls, last, delay, given, report, patchVars, webVars >>

\* --------------------------------------------------- save_generation_report
IsFailure(r) == "error" \in DOMAIN r

\* len([r for r in results if 'error' not in r])
Successful(rs) == Cardinality({ n \in 1..Len(rs) : ~IsFailure(rs[n]) })

\* Mutant: every record that is not a full result counts as failed, and so
\* does every record.
Failed_CountsAll(rs) == Len(rs)

\* len([r for r in results if 'error' in r])
Failed(rs) == Cardinality({ n \in 1..Len(rs) : IsFailure(rs[n]) })

\* Mutant: the total taken from the list handed in.
TotalPersonas_FromResults(rs) == Len(rs)

\* 'total_personas': len(self.consumer_personas)
TotalPersonas(rs) == Len(consumer_personas)

save_generation_report(rs) ==
    [ total_personas         |-> TotalPersonas(rs),
      successful_generations |-> Successful(rs),
      failed_generations     |-> Failed(rs),
      results                |-> rs ]

\* The two outcomes test_save_generation_report passes.
SampleOutcomes ==
    { [ persona_key |-> "estate_inheritor", persona_name |-> "Estate Inheritor",
        filename |-> Filename("estate_inheritor", strftime(0)),
        size |-> << 256, 256 >>, timestamp |-> strftime(0) ],
      [ persona_key |-> "invalid_persona", error |-> << "Test error" >>,
        timestamp |-> strftime(0) ] }

BoundedSeq(S, n) == UNION { [1..m -> S] : m \in 0..n }

\* main(): results = generate_all_personas(); save_generation_report(results)
SaveBatchReport ==
    /\ pc = "done"
    /\ given' = results
    /\ report' = save_generation_report(results)
    /\ pc' = "end"
    /\ UNCHANGED << clock, files, apiCalls, ncalls, last, i, results, log, delay, patchVars, webVars >>

\* A caller hands save_generation_report a list of its own, as the test does.
SaveGivenReport ==
    /\ pc = "idle"
    /\ \E rs \in BoundedSeq(SampleOutcomes, MaxResults) :
         /\ given' = rs
         /\ report' = save_generation_report(rs)
    /\ pc' = "end"
    /\ UNCHANGED << clock, files, apiCalls, ncalls, last, i, results, log, delay, patchVars, webVars >>

NextBatch == StartBatch \/ BatchStep \/ SaveBatchReport \/ SaveGivenReport

SpecBatch == InitGen /\ [][NextBatch]_vars

\* ======================================================================
\* update_persona_images.py: PersonaImageUpdater
\* ======================================================================
MaxOps == 2     \* patcher operations in one behaviour
MaxCards == 2   \* persona cards in the initial document

\* PERSONA_MAPPING, in dict order.
PERSONA_MAPPING ==
    << [ key |-> "estate_inheritor", html_name |-> "Emeka",
         description |-> "Estate Manager" ],
       [ key |-> "reseller_entrepreneur", html_name |-> "Jake",
         description |-> "Reseller" ] >>

Absent == [ exists |-> FALSE ]      \* index.html does not exist
NoElem == << >>                     \* card.find('h3') returned None
NoAvatar == [ kind |-> "none" ]     \* card.find('div', class_='persona-avatar') returned None
\* A div.persona-avatar holding the nodes children.
Avatar(children) == [ kind |-> "div", children |-> children ]
Emoji == Avatar(<< [ kind |-> "text" ] >>)   \* an avatar div holding its placeholder
NoImage == [ stem |-> << >>, ext |-> "" ]   \* get_latest_image returned None

\* A div.persona-card: the text of its first h3 (or none), cut into pieces so
\* that 'x in name_text' holds for a piece, and the content of its first
\* div.persona-avatar (or none).
Cards ==
    [ h3 : { << "Emeka", ", 37" >> }, avatar : {NoAvatar, Emoji} ]
    \cup [ h3 : { << "Jake", ", 28" >>, << "Sarah", ", 41" >>,
                  << "Jake", " & ", "Emeka" >>, NoElem },
           avatar : {Emoji} ]

\* The rules of the style section, in order.
StyleSheets ==
    { << "body" >>, << "body", ".persona-avatar", ".persona-card" >>,
      << "body", ".persona-avatar", ".persona-image" >>,
      << "body", ".persona-image-large" >>,
      << ".persona-image-large", ".persona-avatar" >> }

\* The rule names that hold the text '.persona-image'.
MentionsPersonaImage == { ".persona-image", ".persona-image-large" }

\* A document: its persona cards, its style rules, and whether its text is
\* the output of prettify().
Docs0 == [ cards : BoundedSeq(Cards, MaxCards), css : StyleSheets, pretty : {FALSE} ]

\* Asset directories the patcher may find.
AssetFile(key, t, ext, m) ==
    << [ stem |-> KeyParts(key) \o strftime(t), ext |-> ext ],
       [ data |-> Image(256, 256), mtime |-> m ] >>

AssetDirs ==
    { {},
      { AssetFile("estate_inheritor", 0, "png", 0) },
      { AssetFile("estate_inheritor", 0, "png", 0),
        AssetFile("estate_inheritor", 1, "jpg", 1) },
      { AssetFile("estate_inheritor", 0, "png", 1),
        AssetFile("estate_inheritor", 1, "png", 1) },
      { AssetFile("reseller_entrepreneur", 0, "png", 0) },
      { AssetFile("estate_inheritor", 0, "png", 0),
        AssetFile("reseller_entrepreneur", 0, "png", 0) } }

DirOf(S) == [ n \in { a[1] : a \in S } |-> (CHOOSE a \in S : a[1] = n)[2] ]

\* info['html_name'] in name_text
Contains(name_text, html_name) == \E n \in DOMAIN name_text : name_text[n] = html_name

\* Mutant: a card matches when its whole heading is the html_name.
MatchPersona_WholeText(name_text) ==
    LET hits == { n \in DOMAIN PERSONA_MAPPING :
                    name_text = << PERSONA_MAPPING[n].html_name >> }
    IN  IF hits = {} THEN 0 ELSE CHOOSE n \in hits : \A m \in hits : n <= m

\* The for loop over PERSONA_MAPPING.items() with its break: the index of the
\* first mapping whose html_name the text holds, or 0.
MatchPersona(name_text) ==
    LET hits == { n \in DOMAIN PERSONA_MAPPING :
                    Contains(name_text, PERSONA_MAPPING[n].html_name) }
    IN  IF hits = {} THEN 0 ELSE CHOOSE n \in hits : \A m \in hits : n <= m

\* glob(f'{persona_key}_*.<ext>'): the name starts with the key and an
\* underscore.
Globs(name, persona_key, ext) ==
    LET kp == KeyParts(persona_key)
    IN  /\ name.ext = ext
        /\ Len(name.stem) > Len(kp)
        /\ SubSeq(name.stem, 1, Len(kp)) = kp

\* Mutant: the first match the directory lists is taken.
get_latest_image_FirstListed(persona_key, dir, listing) ==
    LET matching_files ==
            SelectSeq(listing, LAMBDA n : Globs(n, persona_key, "png"))
            \o SelectSeq(listing, LAMBDA n : Globs(n, persona_key, "jpg"))
    IN  IF matching_files = << >> THEN NoImage ELSE matching_files[1]

\* get_latest_image(persona_key) in directory dir, which the file system lists
\* in the order listing: the png matches, then the jpg matches; max() gives the
\* first of the most recently modified. NoImage when nothing matches.
get_latest_image(persona_key, dir, listing) ==
    LET matching_files ==
            SelectSeq(listing, LAMBDA n : Globs(n, persona_key, "png"))
            \o SelectSeq(listing, LAMBDA n : Globs(n, persona_key, "jpg"))
        best == { n \in DOMAIN matching_files :
                    \A m \in DOMAIN matching_files :
                        dir[matching_files[m]].mtime <= dir[matching_files[n]].mtime }
    IN  IF matching_files = << >> THEN NoImage
        ELSE matching_files[CHOOSE n \in best : \A m \in best : n <= m]

\* Mutant: the path is taken relative to the directory of the script.
get_web_image_path_BelowScriptDir(name) == << "generated_images", name >>

\* get_web_image_path: the path below the project root.
get_web_image_path(name) == << "ai_image_generation", "generated_images", name >>

\* soup.new_tag('img', src=..., alt=..., class='persona-image')
NewImg(info, name) ==
    [ kind |-> "img", src |-> get_web_image_path(name),
      alt |-> << info.html_name, " - ", info.description >>,
      class |-> "persona-image" ]

\* Mutant: the image is appended to what the avatar holds.
ReplaceContent_NoClear(avatar, new_img) ==
    [ avatar EXCEPT !.children = @ \o << new_img >> ]

\* avatar.clear(); avatar.append(new_img)
ReplaceContent(avatar, new_img) == [ avatar EXCEPT !.children = << new_img >> ]

\* Mutant: a persona without an image is reported as an error.
CardMissing_AsError(info, card) ==
    [ kind |-> "error", entry |-> << "No image found for", info.key >>, card |-> card ]

\* if not image_path: results['missing_images'].append(persona_key); continue
CardMissing(info, card) ==
    [ kind |-> "missing", entry |-> info.key, card |-> card ]

\* Mutant: the avatar is looked up before the image.
ProcessCard_AvatarFirst(card, dir, listing, dry_run) ==
    IF card.h3 = NoElem THEN [ kind |-> "skip", card |-> card ]
    ELSE LET m == MatchPersona(card.h3)
         IN  IF m = 0 THEN [ kind |-> "skip", card |-> card ]
             ELSE LET info == PERSONA_MAPPING[m]
                      image_path == get_latest_image(info.key, dir, listing)
                  IN  IF card.avatar = NoAvatar
                      THEN [ kind |-> "error",
                             entry |-> << "No avatar element found for", info.key >>,
                             card |-> card ]
                      ELSE IF image_path = NoImage
                      THEN [ kind |-> "missing", entry |-> info.key, card |-> card ]
                      ELSE IF dry_run
                      THEN [ kind |-> "dry", card |-> card ]
                      ELSE [ kind |-> "updated",
                             entry |-> [ persona_key |-> info.key,
                                         name |-> info.html_name,
                                         image_path |-> image_path ],
                             card |-> [ card EXCEPT !.avatar =
                                          [ @ EXCEPT !.children =
                                              << NewImg(info, image_path) >> ] ] ]

\* One pass of the loop over persona_cards: what the card contributes and the
\* card afterwards.
ProcessCard(card, dir, listing, dry_run) ==
    IF card.h3 = NoElem THEN [ kind |-> "skip", card |-> card ]
    ELSE LET m == MatchPersona(card.h3)
         IN  IF m = 0 THEN [ kind |-> "skip", card |-> card ]
             ELSE LET info == PERSONA_MAPPING[m]
                      image_path == get_latest_image(info.key, dir, listing)
                  IN  IF image_path = NoImage
                      THEN CardMissing(info, card)
                      ELSE IF card.avatar = NoAvatar
                      THEN [ kind |-> "error",
                             entry |-> << "No avatar element found for", info.key >>,
                             card |-> card ]
                      ELSE IF dry_run
                      THEN [ kind |-> "dry", card |-> card ]
                      ELSE [ kind |-> "updated",
                             entry |-> [ persona_key |-> info.key,
                                         name |-> info.html_name,
                                         image_path |-> image_path ],
                             card |-> [ card EXCEPT !.avatar =
                                          ReplaceContent(@, NewImg(info, image_path)) ] ]

RECURSIVE Entries(_, _)
Entries(outs, kind) ==
    IF outs = << >> THEN << >>
    ELSE (IF Head(outs).kind = kind THEN << Head(outs).entry >> ELSE << >>)
         \o Entries(Tail(outs), kind)

\* Mutant: only the first card of each persona is processed.
PatchCards_FirstPerKey(doc, dir, listing, dry_run) ==
    LET seen(n) == \E m \in 1..(n - 1) :
                      /\ doc.cards[m].h3 # NoElem
                      /\ doc.cards[n].h3 # NoElem
                      /\ MatchPersona(doc.cards[m].h3) # 0
                      /\ MatchPersona(doc.cards[m].h3) = MatchPersona(doc.cards[n].h3)
        outs == [ n \in DOMAIN doc.cards |->
                    IF seen(n) THEN [ kind |-> "skip", card |-> doc.cards[n] ]
                    ELSE ProcessCard(doc.cards[n], dir, listing, dry_run) ]
    IN  [ updated_personas |-> Entries(outs, "updated"),
          missing_images   |-> Entries(outs, "missing"),
          errors           |-> Entries(outs, "error"),
          soup |-> [ doc EXCEPT !.cards = [ n \in DOMAIN outs |-> outs[n].card ] ] ]

\* The loop of update_html_with_images over a document that exists: the
\* results dict and the soup after the loop.
PatchCards(doc, dir, listing, dry_run) ==
    LET outs == [ n \in DOMAIN doc.cards |->
                    ProcessCard(doc.cards[n], dir, listing, dry_run) ]
    IN  [ updated_personas |-> Entries(outs, "updated"),
          missing_images   |-> Entries(outs, "missing"),
          errors           |-> Entries(outs, "error"),
          soup |-> [ doc EXCEPT !.cards = [ n \in DOMAIN outs |-> outs[n].card ] ] ]

\* str(soup.prettify())
Prettify(soup) == [ soup EXCEPT !.pretty = TRUE ]

\* Mutant: the document is written whenever the run is not a dry run.
WritesUpdate_IgnoresUpdated(dry_run, updated_personas) == ~dry_run

\* if not dry_run and results['updated_personas']
WritesUpdate(dry_run, updated_personas) == ~dry_run /\ updated_personas # << >>

\* create_backup(): shutil.copy2(html_path, backup_path), the path named by
\* the time stamp.
create_backup(bks, doc, now) ==
    [ t \in DOMAIN bks \cup { strftime(now) } |->
        IF t = strftime(now) THEN doc ELSE bks[t] ]

\* '.persona-image' in html_content: a substring test on the whole text.
HasImageRule(doc) == \E n \in DOMAIN doc.css : doc.css[n] \in MentionsPersonaImage

\* re.search(r'(\.persona-avatar\s*{[^}]*})', ...): the place of the first
\* .persona-avatar rule, or 0.
AnchorPosition(doc) ==
    LET hits == { n \in DOMAIN doc.css : doc.css[n] = ".persona-avatar" }
    IN  IF hits = {} THEN 0 ELSE CHOOSE n \in hits : \A m \in hits : n <= m

\* html_content[:insert_position] + persona_image_css + html_content[insert_position:]
InsertRule(doc, pos) ==
    [ doc EXCEPT !.css = SubSeq(doc.css, 1, pos) \o << ".persona-image" >>
                         \o SubSeq(doc.css, pos + 1, Len(doc.css)) ]

\* The orders in which the file system may list a directory.
Listings(S) ==
    { f \in [1..Cardinality(S) -> S] : \A a, b \in DOMAIN f : a # b => f[a] # f[b] }

InitPatch ==
    /\ InitWeb
    /\ clock = 0
    /\ \E S \in AssetDirs : files = DirOf(S)
    /\ apiCalls = 0
    /\ ncalls = 0
    /\ last = NoCall
    /\ pc = "idle"
    /\ i = 1
    /\ results = << >>
    /\ log = << >>
    /\ delay = 0
    /\ given = << >>
    /\ report = << >>
    /\ html \in Docs0 \cup {Absent}
    /\ backups = << >>
    /\ nops = 0
    /\ op = [ name |-> "none" ]

OpUpdate(dry_run, raised, backup, wrote, r) ==
    [ name |-> "update_html_with_images", dry_run |-> dry_run,
      raised |-> raised, backup |-> backup, wrote |-> wrote,
      updated_personas |-> r.updated_personas,
      missing_images |-> r.missing_images, errors |-> r.errors ]

OpCss(dry_run, raised, backup, wrote, ret) ==
    [ name |-> "add_persona_image_css", dry_run |-> dry_run,
      raised |-> raised, backup |-> backup, wrote |-> wrote, ret |-> ret ]

\* update_html_with_images(dry_run). The directory is listed in some order;
\* when the backup is taken the clock is read, and shutil.copy2 may fail.
UpdateHtml ==
    /\ nops < MaxOps
    /\ nops' = nops + 1
    /\ \E dry_run \in BOOLEAN, listing \in Listings(DOMAIN files) :
         IF html = Absent
         THEN /\ op' = OpUpdate(dry_run, FALSE, FALSE, FALSE,
                                [ updated_personas |-> << >>, missing_images |-> << >>,
                                  errors |-> << << "HTML file not found" >> >> ])
              /\ UNCHANGED << html, backups, clock >>
         ELSE LET r == PatchCards(html, files, listing, dry_run)
              IN  IF WritesUpdate(dry_run, r.updated_personas)
                  THEN \E copy \in {"ok", "error"}, dt \in 0..1 :
                         /\ clock + dt <= MaxTime
                         /\ clock' = clock + dt
                         /\ IF copy = "ok"
                            THEN /\ backups' = create_backup(backups, html, clock + dt)
                                 /\ html' = Prettify(r.soup)
                                 /\ op' = OpUpdate(dry_run, FALSE, TRUE, TRUE, r)
                            ELSE /\ op' = OpUpdate(dry_run, TRUE, FALSE, FALSE, r)
                                 /\ UNCHANGED << html, backups >>
                  ELSE /\ op' = OpUpdate(dry_run, FALSE, FALSE, FALSE, r)
                       /\ UNCHANGED << html, backups, clock >>
    /\ UNCHANGED << genVars, webVars >>

\* Mutant: the dry_run flag is not consulted.
add_persona_image_css_IgnoresDryRun(doc, dry_run) ==
    IF HasImageRule(doc) THEN [ ret |-> TRUE, wrote |-> FALSE, doc |-> doc ]
    ELSE LET pos == AnchorPosition(doc)
         IN  IF pos = 0 THEN [ ret |-> FALSE, wrote |-> FALSE, doc |-> doc ]
             ELSE [ ret |-> TRUE, wrote |-> TRUE, doc |-> InsertRule(doc, pos) ]

\* add_persona_image_css(dry_run) on a document that exists: the value
\* returned, whether the file is written, and the text written.
add_persona_image_css(doc, dry_run) ==
    IF HasImageRule(doc) THEN [ ret |-> TRUE, wrote |-> FALSE, doc |-> doc ]
    ELSE LET pos == AnchorPosition(doc)
         IN  IF pos = 0 THEN [ ret |-> FALSE, wrote |-> FALSE, doc |-> doc ]
             ELSE IF dry_run THEN [ ret |-> TRUE, wrote |-> FALSE, doc |-> doc ]
             ELSE [ ret |-> TRUE, wrote |-> TRUE, doc |-> InsertRule(doc, pos) ]

\* add_persona_image_css(dry_run): the rule is inserted and the file written;
\* create_backup is not called.
AddCss ==
    /\ nops < MaxOps
    /\ nops' = nops + 1
    /\ \E dry_run \in BOOLEAN :
         IF html = Absent
         THEN /\ op' = OpCss(dry_run, FALSE, FALSE, FALSE, FALSE)
              /\ html' = html
         ELSE LET r == add_persona_image_css(html, dry_run)
              IN  /\ op' = OpCss(dry_run, FALSE, FALSE, r.wrote, r.ret)
                  /\ html' = IF r.wrote THEN r.doc ELSE html
    /\ UNCHANGED << backups, clock, genVars, webVars >>

NextPatch == UpdateHtml \/ AddCss

SpecPatch == InitPatch /\ [][NextPatch]_vars

\* ----------------------------------------------------------- validate_updates
\* The img nodes an avatar holds, in document order.
ImagesIn(avatar) ==
    IF avatar = NoAvatar THEN << >>
    ELSE SelectSeq(avatar.children, LAMBDA c : c.kind = "img")

\* (self.project_root / src).exists(), for a src below generated_images.
FileExists(src, dir) ==
    /\ Len(src) = 3
    /\ src[1] = "ai_image_generation"
    /\ src[2] = "generated_images"
    /\ src[3] \in DOMAIN dir

\* One pass of the loop over persona_avatars: the first img of the avatar, if
\* any, is recorded; a file that is missing clears valid and adds an issue, an
\* alt that is missing or empty adds an issue.
ValidateAvatar(avatar, dir) ==
    LET imgs == ImagesIn(avatar)
    IN  IF imgs = << >> THEN [ found |-> << >>, issues |-> << >>, valid |-> TRUE ]
        ELSE LET img == Head(imgs)
             IN  [ found  |-> << [ src |-> img.src, alt |-> img.alt ] >>,
                   issues |-> (IF FileExists(img.src, dir) THEN << >>
                               ELSE << << "Image file not found", img.src >> >>)
                              \o (IF img.alt = << >>
                                  THEN << << "Missing alt text for image", img.src >> >>
                                  ELSE << >>),
                   valid  |-> FileExists(img.src, dir) ]

RECURSIVE Collect(_, _)
Collect(outs, field) ==
    IF outs = << >> THEN << >> ELSE Head(outs)[field] \o Collect(Tail(outs), field)

\* Mutant: a document without images keeps the verdict of the loop.
NoImagesFound_Never(images_found) == FALSE

\* if not validation['images_found']
NoImagesFound(images_found) == images_found = << >>

\* validate_updates(): the validation dict.
validate_updates(doc, dir) ==
    IF doc = Absent
    THEN [ valid |-> FALSE, issues |-> << << "HTML file not found" >> >>,
           images_found |-> << >> ]
    ELSE LET outs == [ n \in DOMAIN doc.cards |->
                         ValidateAvatar(doc.cards[n].avatar, dir) ]
             images_found == Collect(outs, "found")
         IN  [ valid  |-> /\ \A n \in DOMAIN outs : outs[n].valid
                          /\ ~NoImagesFound(images_found),
               issues |-> Collect(outs, "issues")
                          \o (IF NoImagesFound(images_found)
                              THEN << << "No persona images found in HTML" >> >>
                              ELSE << >>),
               images_found |-> images_found ]

\* Documents validate_updates may be given: cards whose avatar holds its
\* placeholder, the img update_html_with_images writes, or an img without alt.
EstateImg == NewImg(PERSONA_MAPPING[1], AssetFile("estate_inheritor", 0, "png", 0)[1])
ResellerImg == NewImg(PERSONA_MAPPING[2], AssetFile("reseller_entrepreneur", 0, "png", 0)[1])
NoAlt(img) == [ img EXCEPT !.alt = << >> ]

PatchedCards ==
    [ h3 : { << "Emeka", ", 37" >> },
      avatar : { Emoji, Avatar(<< EstateImg >>), Avatar(<< NoAlt(EstateImg) >>) } ]
    \cup [ h3 : { << "Jake", ", 28" >> }, avatar : { Avatar(<< ResellerImg >>) } ]

PatchedDocs ==
    [ cards : BoundedSeq(PatchedCards, MaxCards), css : { << "body" >> }, pretty : {TRUE} ]

InitValidate ==
    /\ InitWeb
    /\ clock = 0
    /\ \E S \in AssetDirs : files = DirOf(S)
    /\ apiCalls = 0
    /\ ncalls = 0
    /\ last = NoCall
    /\ pc = "idle"
    /\ i = 1
    /\ results = << >>
    /\ log = << >>
    /\ delay = 0
    /\ given = << >>
    /\ report = << >>
    /\ html \in PatchedDocs \cup {Absent}
    /\ backups = << >>
    /\ nops = 0
    /\ op = [ name |-> "none" ]

\* validate_updates(): reads the document and the directory, changes neither.
Validate ==
    /\ nops < MaxOps
    /\ nops' = nops + 1
    /\ op' = [ name |-> "validate_updates" ] @@ validate_updates(html, files)
    /\ UNCHANGED << html, backups, clock, genVars, webVars >>

NextValidate == UpdateHtml \/ Validate

SpecValidate == InitValidate /\ [][NextValidate]_vars

\* ----------------------------------------------------------- get_latest_image
\* Directories get_latest_image may search: files of the persona as png and
\* jpg, of equal or different age, files of another persona, and names the
\* glob does not match.
OtherFile(stem, ext, m) ==
    << [ stem |-> stem, ext |-> ext ], [ data |-> Image(256, 256), mtime |-> m ] >>

LatestDirs ==
    AssetDirs
    \cup { { AssetFile("estate_inheritor", 0, "png", 0),
             AssetFile("estate_inheritor", 1, "jpg", 1),
             AssetFile("reseller_entrepreneur", 0, "png", 2) },
           { AssetFile("estate_inheritor", 0, "jpg", 0),
             OtherFile(<< "estate", "inheritor" >>, "png", 1),
             OtherFile(<< "estate" >>, "png", 2) },
           { AssetFile("antique_collector", 0, "png", 0),
             AssetFile("antique_collector", 1, "png", 1),
             OtherFile(KeyParts("antique_collector") \o strftime(1), "txt", 2) },
           { OtherFile(<< "notes" >>, "txt", 0) } }

InitLatest ==
    /\ InitWeb
    /\ clock = 0
    /\ \E S \in LatestDirs : files = DirOf(S)
    /\ apiCalls = 0
    /\ ncalls = 0
    /\ last = NoCall
    /\ pc = "idle"
    /\ i = 1
    /\ results = << >>
    /\ log = << >>
    /\ delay = 0
    /\ given = << >>
    /\ report = << >>
    /\ html = Absent
    /\ backups = << >>
    /\ nops = 0
    /\ op = [ name |-> "none" ]

\* get_latest_image(persona_key), the directory being listed in some order.
GetLatest ==
    /\ nops < MaxOps
    /\ nops' = nops + 1
    /\ \E persona_key \in PersonaKeys, listing \in Listings(DOMAIN files) :
         op' = [ name |-> "get_latest_image", persona_key |-> persona_key,
                 listing |-> listing,
                 result |-> get_latest_image(persona_key, files, listing) ]
    /\ UNCHANGED << html, backups, clock, genVars, webVars >>

NextLatest == GetLatest

SpecLatest == InitLatest /\ [][NextLatest]_vars

\* --------------------------------------------------- generate_ai_images.main
\* ValueSnapImageGenerator() raises ValueError when no API key is set; main's
\* except clause returns 1.
MainWithoutKey ==
    /\ pc = "idle"
    /\ pc' = "exit1"
    /\ UNCHANGED << clock, files, apiCalls, ncalls, last, i, results, log, delay,
                    given, report, patchVars, webVars >>

\* main() after generate_all_personas: save_generation_report(results), whose
\* open(report_path, 'w') may raise; then return 0, or 1 from the except
\* clause.
MainReport ==
    /\ pc = "done"
    /\ \E write \in {"ok", "error"} :
         IF write = "ok"
         THEN /\ given' = results
              /\ report' = save_generation_report(results)
              /\ pc' = "exit0"
         ELSE /\ pc' = "exit1"
              /\ UNCHANGED << given, report >>
    /\ UNCHANGED << clock, files, apiCalls, ncalls, last, i, results, log, delay, patchVars, webVars >>

NextGenMain == MainWithoutKey \/ StartBatch \/ BatchStep \/ MainReport

SpecGenMain == InitGen /\ [][NextGenMain]_vars

\* ------------------------------------------------ update_persona_images.main
\* Mutant: the verdict is not turned into the exit code.
ExitCode_AlwaysZero(valid) == 0

\* return 0 if validation['valid'] else 1
ExitCode(valid) == IF valid THEN 0 ELSE 1

OpMain(validate, add_css, dry_run, exit_code, updated) ==
    [ name |-> "main", validate |-> validate, add_css |-> add_css,
      dry_run |-> dry_run, exit_code |-> exit_code, updated |-> updated ]

\* The document after the --add-css step of main.
AfterAddCss(doc, add_css, dry_run) ==
    IF add_css /\ doc # Absent /\ add_persona_image_css(doc, dry_run).wrote
    THEN add_persona_image_css(doc, dry_run).doc
    ELSE doc

\* One run of the tool with the flags --validate, --add-css, --dry-run. With
\* --validate it returns after validate_updates; else it runs
\* add_persona_image_css if asked, then update_html_with_images, and returns 0.
\* An exception of shutil.copy2 leaves main and ends the process with status 1.
PatchMain ==
    /\ nops < MaxOps
    /\ nops' = nops + 1
    /\ \E validate \in BOOLEAN, add_css \in BOOLEAN, dry_run \in BOOLEAN,
          listing \in Listings(DOMAIN files) :
         IF validate
         THEN /\ op' = OpMain(validate, add_css, dry_run,
                              ExitCode(validate_updates(html, files).valid), 0)
              /\ UNCHANGED << html, backups, clock >>
         ELSE LET doc == AfterAddCss(html, add_css, dry_run)
              IN  IF doc = Absent
                  THEN /\ op' = OpMain(validate, add_css, dry_run, 0, 0)
                       /\ UNCHANGED << html, backups, clock >>
                  ELSE LET r == PatchCards(doc, files, listing, dry_run)
                       IN  IF WritesUpdate(dry_run, r.updated_personas)
                           THEN \E copy \in {"ok", "error"}, dt \in 0..1 :
                                  /\ clock + dt <= MaxTime
                                  /\ clock' = clock + dt
                                  /\ IF copy = "ok"
                                     THEN /\ backups' = create_backup(backups, doc, clock + dt)
                                          /\ html' = Prettify(r.soup)
                                          /\ op' = OpMain(validate, add_css, dry_run, 0,
                                                          Len(r.updated_personas))
                                     ELSE /\ backups' = backups
                                          /\ html' = doc
                                          /\ op' = OpMain(validate, add_css, dry_run, 1, 0)
                           ELSE /\ html' = doc
                                /\ op' = OpMain(validate, add_css, dry_run, 0, 0)
                                /\ UNCHANGED << backups, clock >>
    /\ UNCHANGED << genVars, webVars >>

NextCli == PatchMain

\* The documents and directories the tool is run on: cards of both personas
\* with and without avatar, a style section with and without the anchor rule,
\* and assets for none, one or both personas.
CliCards ==
    { [ h3 |-> << "Emeka", ", 37" >>, avatar |-> Emoji ],
      [ h3 |-> << "Emeka", ", 37" >>, avatar |-> NoAvatar ],
      [ h3 |-> << "Jake", ", 28" >>, avatar |-> Emoji ] }

CliDocs ==
    [ cards : BoundedSeq(CliCards, MaxCards),
      css : { << "body" >>, << "body", ".persona-avatar", ".persona-card" >> },
      pretty : {FALSE} ]

CliDirs ==
    { {},
      { AssetFile("estate_inheritor", 0, "png", 0) },
      { AssetFile("estate_inheritor", 0, "png", 0),
        AssetFile("reseller_entrepreneur", 0, "png", 0) } }

InitCli ==
    /\ InitWeb
    /\ clock = 0
    /\ \E S \in CliDirs : files = DirOf(S)
    /\ apiCalls = 0
    /\ ncalls = 0
    /\ last = NoCall
    /\ pc = "idle"
    /\ i = 1
    /\ results = << >>
    /\ log = << >>
    /\ delay = 0
    /\ given = << >>
    /\ report = << >>
    /\ html \in CliDocs \cup {Absent}
    /\ backups = << >>
    /\ nops = 0
    /\ op = [ name |-> "none" ]

SpecCli == InitCli /\ [][NextCli]_vars

\* --------------------------------------------------------- app.join_waitlist
\* What str.strip() removes at both ends.
Whitespace == { " ", "\n" }

\* Values of the 'email' field, as sequences of pieces of text; "@", ".", " "
\* and "\n" are pieces of their own.
Emails ==
    { << >>, << " " >>, << "not-an-email" >>,
      << "a", "@", "b" >>, << "a", ".", "b" >>, << "@", "." >>,
      << "a", "@", "b", ".", "com" >>,
      << " ", "a", "@", "b", ".", "com", "\n" >>,
      << "a", "@", "b", ".", "com", "\n", "x", "@", "y", ".", "z" >> }

\* Request bodies: none that is JSON, the JSON value null, an object without
\* 'email', an object whose 'email' is a number, an object with a string.
Bodies ==
    { [ kind |-> "none" ], [ kind |-> "null" ], [ kind |-> "object" ],
      [ kind |-> "object", number |-> 42 ] }
    \cup { [ kind |-> "object", email |-> e ] : e \in Emails }

RECURSIVE LStrip(_)
LStrip(e) == IF e # << >> /\ Head(e) \in Whitespace THEN LStrip(Tail(e)) ELSE e

RECURSIVE RStrip(_)
RStrip(e) ==
    IF e # << >> /\ e[Len(e)] \in Whitespace THEN RStrip(SubSeq(e, 1, Len(e) - 1)) ELSE e

\* email.strip()
Strip(e) == RStrip(LStrip(e))

\* '@' in email, '.' in email
HasChar(email, c) == \E n \in DOMAIN email : email[n] = c

\* The lines a text ends: its pieces up to each "\n".
RECURSIVE SplitLines(_, _)
SplitLines(text, line) ==
    IF text = << >> THEN << >>
    ELSE IF Head(text) = "\n" THEN << line >> \o SplitLines(Tail(text), << >>)
    ELSE SplitLines(Tail(text), Append(line, Head(text)))

\* f.write(f"{timestamp} | {email}\n") on a file opened with 'a'.
AppendEntry(lines, now, email) ==
    lines \o SplitLines(<< strftime(now), " | " >> \o email \o << "\n" >>, << >>)

Answer(status, success, message) ==
    [ status |-> status, success |-> success, message |-> message ]

\* join_waitlist on a request with this body: the answer and the file
\* afterwards. get_json() of a body that is not JSON raises or returns None,
\* as the version of the framework has it; open(WAITLIST_FILE, 'a') may raise.
join_waitlist(body, get_json, open, now, lines) ==
    IF body.kind = "none" /\ get_json = "raises"
    THEN [ answer |-> Answer(500, FALSE, "An error occurred"), lines |-> lines ]
    ELSE IF body.kind \in {"none", "null"}
    THEN [ answer |-> Answer(500, FALSE, "An error occurred"), lines |-> lines ]
    ELSE IF "number" \in DOMAIN body
    THEN [ answer |-> Answer(500, FALSE, "An error occurred"), lines |-> lines ]
    ELSE LET email == IF "email" \in DOMAIN body THEN Strip(body.email) ELSE << >>
         IN  IF email = << >>
             THEN [ answer |-> Answer(400, FALSE, "Email is required"), lines |-> lines ]
             ELSE IF ~HasChar(email, "@") \/ ~HasChar(email, ".")
             THEN [ answer |-> Answer(400, FALSE, "Invalid email address"),
                    lines |-> lines ]
             ELSE IF open = "error"
             THEN [ answer |-> Answer(500, FALSE, "An error occurred"), lines |-> lines ]
             ELSE [ answer |-> Answer(200, TRUE, "Thanks for joining!"),
                    lines |-> AppendEntry(lines, now, email) ]

MaxRequests == 3

\* POST /api/waitlist
JoinWaitlist ==
    /\ nreq < MaxRequests
    /\ nreq' = nreq + 1
    /\ \E body \in Bodies, get_json \in {"raises", "none"}, open \in {"ok", "error"} :
         LET r == join_waitlist(body, get_json, open, clock, waitlist)
         IN  /\ response' = r.answer @@ [ body |-> body ]
             /\ waitlist' = r.lines
    /\ UNCHANGED << clock, genVars, patchVars >>

NextWeb == JoinWaitlist

SpecWeb == InitGen /\ [][NextWeb]_vars

\* ======================================================================
\* Claims
\* ======================================================================
NPersonas == Len(consumer_personas)

\* The attempts of the running batch, without its sleeps.
AttemptsOf(lg) == SelectSeq(lg, LAMBDA e : e[1] = "attempt")

RECURSIVE CountErrors(_)
CountErrors(rs) ==
    IF rs = << >> THEN 0
    ELSE (IF "error" \in DOMAIN Head(rs) THEN 1 ELSE 0) + CountErrors(Tail(rs))

\* C1: when generate_all_personas returns, results holds exactly one outcome
\* per persona of the registry, the n-th carrying the n-th key, and the outcomes
\* without an 'error' field plus those with one number N, whatever failed.
C1_BatchOutcomes ==
    pc = "done" =>
        /\ Len(results) = NPersonas
        /\ \A n \in 1..NPersonas : results[n].persona_key = consumer_personas[n]
        /\ Cardinality({ n \in DOMAIN results : "error" \notin DOMAIN results[n] })
             + Cardinality({ n \in DOMAIN results : "error" \in DOMAIN results[n] })
             = NPersonas
        /\ \A n \in DOMAIN results :
             "error" \notin DOMAIN results[n] => "filename" \in DOMAIN results[n]

\* A finished batch whose first and third personas failed and whose others
\* succeeded.
C1_Witness ==
    /\ pc = "done"
    /\ Len(results) = NPersonas
    /\ "error" \in DOMAIN results[1]
    /\ "error" \notin DOMAIN results[2]
    /\ "error" \in DOMAIN results[3]
    /\ "error" \notin DOMAIN results[4]

\* C2: in a batch the provider is called once per persona, in registry order:
\* while the loop runs the attempts made are those of the personas before the
\* loop index, and when it has returned they are those of all N personas; no
\* failure stops the loop and none is retried.
C2_OneAttemptEach ==
    pc \in {"loop", "done"} =>
        /\ AttemptsOf(log) =
             [ n \in 1..(IF pc = "done" THEN NPersonas ELSE i - 1) |->
                 Attempt(consumer_personas[n]) ]
        /\ apiCalls = Len(AttemptsOf(log))

\* A finished batch in which the first persona failed and the last was still
\* attempted.
C2_Witness ==
    /\ pc = "done"
    /\ Len(results) = NPersonas
    /\ "error" \in DOMAIN results[1]
    /\ "error" \in DOMAIN results[2]
    /\ AttemptsOf(log)[NPersonas] = Attempt(consumer_personas[NPersonas])

\* What C3 expects of a batch's log: attempt, sleep, attempt, ..., attempt.
ExpectedLog(d) ==
    [ n \in 1..(2 * NPersonas - 1) |->
        IF n % 2 = 1 THEN Attempt(consumer_personas[(n + 1) \div 2]) ELSE Sleep(d) ]

\* C3 (as claimed): a finished batch slept inter_request_delay between every
\* two successive attempts, whether the earlier one succeeded or failed, and
\* not after the last.
C3_SleepBetweenAttempts == pc = "done" => log = ExpectedLog(delay)

\* Whether the last direct call reached the verification of the saved file.
ReachedVerify ==
    /\ last.key \in PersonaKeys
    /\ last.env.api = "ok"
    /\ last.env.download = "ok"
    /\ last.env.open = "ok"

\* C4 (as claimed): after a call whose verification failed, the file written
\* by that attempt is no longer in the asset directory.
C4_NoFileAfterVerifyFailure ==
    (ReachedVerify /\ ~last.env.content.decodes) => last.filename \notin DOMAIN files

\* Verified by test_persona_images_valid_format: at least 256x256.
MinSize == 256

\* C5 (as claimed): a call that returns a result returns one whose saved file
\* decodes and measures at least MinSize x MinSize.
C5_ResultIsValidImage ==
    (last.key \in PersonaKeys /\ last.raised = "none") =>
        /\ last.result.filename \in DOMAIN files
        /\ files[last.result.filename].data.decodes
        /\ files[last.result.filename].data.width >= MinSize
        /\ files[last.result.filename].data.height >= MinSize

\* C6 (as claimed): every report written has
\* successful_generations + failed_generations = total_personas.
C6_CountsAddUp ==
    report # << >> =>
        report.successful_generations + report.failed_generations = report.total_personas

\* C6 (amended): every report written has successful + failed equal to the
\* number of outcomes handed in, and equal to total_personas when the outcomes
\* are those generate_all_personas returned.
C6_CountsPartitionResults ==
    report # << >> =>
        /\ report.successful_generations + report.failed_generations = Len(given)
        /\ (pc = "end" /\ given = results /\ log # << >>) =>
              report.successful_generations + report.failed_generations
                  = report.total_personas

\* The report of a batch with failures and successes, written by main.
C6_Witness ==
    /\ report # << >>
    /\ pc = "end"
    /\ log # << >>
    /\ given = results
    /\ report.failed_generations = 2
    /\ report.successful_generations = 2

\* C7: the report's total_personas is the size of the registry, its
\* successful_generations the number of outcomes handed in without an 'error'
\* field, its failed_generations the number with one, and its results the list
\* handed in, unchanged.
C7_ReportFields ==
    report # << >> =>
        /\ report.total_personas = NPersonas
        /\ report.failed_generations = CountErrors(given)
        /\ report.successful_generations = Len(given) - CountErrors(given)
        /\ report.results = given

\* The report of test_save_generation_report: one result and one error.
C7_Witness ==
    /\ report # << >>
    /\ Len(given) = 2
    /\ "error" \notin DOMAIN given[1]
    /\ "error" \in DOMAIN given[2]
    /\ report.successful_generations = 1
    /\ report.failed_generations = 1

\* C8: a call with a key that is not in the registry raises ValueError
\* 'Unknown persona' and neither calls the provider nor changes the asset
\* directory.
C8_UnknownPersonaRejected ==
    [][ (ncalls' = ncalls + 1 /\ last'.key \notin PersonaKeys) =>
            /\ last'.raised = "ValueError"
            /\ last'.error = << "Unknown persona", last'.key >>
            /\ apiCalls' = apiCalls
            /\ files' = files ]_vars

\* An unknown key passed after an earlier call reached the provider and
\* wrote a file.
C8_Witness ==
    /\ last.key = "invalid_persona"
    /\ last.raised = "ValueError"
    /\ apiCalls = 1
    /\ files # << >>

\* C9: for a known persona, a failure of the provider request, of the download
\* or of the verification makes the call raise the wrapped error that names the
\* persona, and no result is returned.
C9_FailuresWrapped ==
    ( /\ last.key \in PersonaKeys
      /\ \/ last.env.api = "error"
         \/ last.env.download = "error"
         \/ ~last.env.content.decodes ) =>
        /\ last.raised = "Exception"
        /\ Len(last.error) = 3
        /\ last.error[1] = "Failed to generate image for"
        /\ last.error[2] = PersonaName(last.key)
        /\ last.result = << >>

\* A call whose provider request and download succeeded and whose saved file
\* did not decode.
C9_Witness ==
    /\ ReachedVerify
    /\ ~last.env.content.decodes
    /\ last.raised = "Exception"
    /\ last.error[3] = "Failed to verify saved image"

\* C10 (as claimed): an operation of the patcher that writes index.html has
\* first completed create_backup, so that a backup holds the document as it
\* was before the write.
C10_BackupBeforeWrite ==
    [][ (nops' = nops + 1 /\ op'.wrote) =>
            /\ op'.backup
            /\ \E t \in DOMAIN backups' : backups'[t] = html ]_vars

\* A step that is one call of update_html_with_images / add_persona_image_css.
UpdateStep == nops' = nops + 1 /\ op'.name = "update_html_with_images"
CssStep == nops' = nops + 1 /\ op'.name = "add_persona_image_css"

\* C11: update_html_with_images writes the document only if it updated at
\* least one card; when it updated none, the file is left as it was and no
\* backup is made.
C11_WriteOnlyIfUpdated ==
    [][ UpdateStep =>
            /\ (op'.wrote \/ op'.backup \/ html' # html \/ backups' # backups)
                  => op'.updated_personas # << >>
            /\ op'.updated_personas = << >>
                  => (html' = html /\ backups' = backups) ]_vars

\* A run that was no dry run, found a card whose persona has no image, updated
\* nothing and left the unprettified document and the backups alone.
C11_Witness ==
    /\ op.name = "update_html_with_images"
    /\ ~op.dry_run
    /\ op.updated_personas = << >>
    /\ op.missing_images # << >>
    /\ html # Absent
    /\ ~html.pretty
    /\ backups = << >>

\* C12: with dry_run both operations leave the document file and the backups
\* as they were, while update_html_with_images still matches the cards and
\* resolves the assets: it reports the missing images a real run reports.
C12_DryRunChangesNothing ==
    [][ (nops' = nops + 1 /\ op'.dry_run) =>
            /\ html' = html
            /\ backups' = backups
            /\ ~op'.wrote /\ ~op'.backup
            /\ (op'.name = "update_html_with_images" /\ html # Absent) =>
                  \E listing \in Listings(DOMAIN files) :
                      op'.missing_images
                          = PatchCards(html, files, listing, FALSE).missing_images ]_vars

\* The document after a dry run of add_persona_image_css that found the anchor
\* and would have inserted the rule.
C12_Witness ==
    /\ op.name = "add_persona_image_css"
    /\ op.dry_run
    /\ op.ret
    /\ html # Absent
    /\ ~HasImageRule(html)
    /\ AnchorPosition(html) # 0

\* Whether generated_images holds an image for the persona.
HasAsset(key) ==
    \E n \in DOMAIN files : Globs(n, key, "png") \/ Globs(n, key, "jpg")

\* The cards of doc, by index, that are bound to a persona without an image.
Unresolved(doc) ==
    { n \in DOMAIN doc.cards :
        /\ doc.cards[n].h3 # NoElem
        /\ MatchPersona(doc.cards[n].h3) # 0
        /\ ~HasAsset(PERSONA_MAPPING[MatchPersona(doc.cards[n].h3)].key) }

\* The persona keys of the cards in S, in document order.
KeysInOrder(doc, S) ==
    LET idx == SelectSeq([ n \in DOMAIN doc.cards |-> n ], LAMBDA n : n \in S)
    IN  [ k \in DOMAIN idx |-> PERSONA_MAPPING[MatchPersona(doc.cards[idx[k]].h3)].key ]

\* C13: update_html_with_images records under missing_images the persona key
\* of every card bound to a persona without an image, in document order, and
\* leaves each such card as it was.
C13_MissingImagesRecorded ==
    [][ (UpdateStep /\ html # Absent) =>
            /\ op'.missing_images = KeysInOrder(html, Unresolved(html))
            /\ \A n \in Unresolved(html) : html'.cards[n] = html.cards[n] ]_vars

\* A run that wrote the document and reported a missing image.
C13_Witness ==
    /\ op.name = "update_html_with_images"
    /\ op.wrote
    /\ op.missing_images # << >>
    /\ html # Absent
    /\ html.pretty

\* C14: a second update_html_with_images that follows a writing one and
\* resolves the same assets writes the document the first wrote, no avatar
\* holding more than one img; a second add_persona_image_css that follows an
\* inserting one changes nothing, the .persona-image rule being there once.
C14_PatchIdempotent ==
    [][ /\ ( /\ UpdateStep
             /\ op.name = "update_html_with_images" /\ op.wrote
             /\ ~op'.dry_run
             /\ op'.updated_personas = op.updated_personas )
           => /\ html' = html
              /\ \A n \in DOMAIN html'.cards :
                    Len(ImagesIn(html'.cards[n].avatar)) <= 1
        /\ ( /\ CssStep
             /\ op.name = "add_persona_image_css" /\ op.wrote )
           => /\ html' = html
              /\ op'.ret /\ ~op'.wrote
              /\ Cardinality({ n \in DOMAIN html'.css :
                                 html'.css[n] = ".persona-image" }) = 1 ]_vars

\* Two writing updates in a row, the second leaving the document it found
\* (which is its backup), a patched avatar holding one img.
C14_Witness ==
    /\ nops = 2
    /\ op.name = "update_html_with_images"
    /\ op.wrote
    /\ Cardinality(DOMAIN backups) = 2
    /\ \E t \in DOMAIN backups : backups[t] = html
    /\ \E n \in DOMAIN html.cards : Len(ImagesIn(html.cards[n].avatar)) = 1

\* The document of C15: the cards 'Emeka, 37' and 'Jake, 28', each with its
\* placeholder, and an asset for estate_inheritor only.
EmekaCard == [ h3 |-> << "Emeka", ", 37" >>, avatar |-> Emoji ]
JakeCard == [ h3 |-> << "Jake", ", 28" >>, avatar |-> Emoji ]
TwoCards(doc) == doc # Absent /\ doc.cards = << EmekaCard, JakeCard >>
OnlyEstate == HasAsset("estate_inheritor") /\ ~HasAsset("reseller_entrepreneur")

\* C15: on that document and directory a run that is no dry run (and whose
\* copy succeeds) updates the card of Emeka as estate_inheritor and no other,
\* reports missing_images = <<"reseller_entrepreneur">>, and takes the backup
\* and writes.
C15_EmekaUpdatedJakeMissing ==
    [][ (UpdateStep /\ TwoCards(html) /\ OnlyEstate /\ ~op'.dry_run /\ ~op'.raised) =>
            /\ Len(op'.updated_personas) = 1
            /\ op'.updated_personas[1].persona_key = "estate_inheritor"
            /\ op'.updated_personas[1].name = "Emeka"
            /\ op'.missing_images = << "reseller_entrepreneur" >>
            /\ op'.errors = << >>
            /\ op'.backup /\ op'.wrote
            /\ \E t \in DOMAIN backups' : t \notin DOMAIN backups /\ backups'[t] = html
            /\ html'.pretty
            /\ Len(ImagesIn(html'.cards[1].avatar)) = 1
            /\ html'.cards[2] = JakeCard ]_vars

\* The document after that run.
C15_Witness ==
    /\ op.name = "update_html_with_images"
    /\ op.wrote /\ op.backup
    /\ op.missing_images = << "reseller_entrepreneur" >>
    /\ Len(op.updated_personas) = 1
    /\ html # Absent
    /\ Len(html.cards) = 2
    /\ html.cards[1].h3 = EmekaCard.h3
    /\ html.cards[1].avatar # Emoji
    /\ html.cards[2] = JakeCard
    /\ OnlyEstate

\* The cards of doc, by index, bound to a persona that has an image, and
\* holding an avatar.
Resolved(doc) ==
    { n \in DOMAIN doc.cards :
        /\ doc.cards[n].h3 # NoElem
        /\ MatchPersona(doc.cards[n].h3) # 0
        /\ HasAsset(PERSONA_MAPPING[MatchPersona(doc.cards[n].h3)].key)
        /\ doc.cards[n].avatar # NoAvatar }

\* C16: a run that is no dry run updates every card bound to a persona with
\* an image, in document order, however many cards share the persona: each
\* such avatar holds the img of that persona and nothing else.
C16_AllMatchingCardsUpdated ==
    [][ (UpdateStep /\ html # Absent /\ ~op'.dry_run /\ ~op'.raised) =>
            /\ [ k \in DOMAIN op'.updated_personas |->
                   op'.updated_personas[k].persona_key ]
                 = KeysInOrder(html, Resolved(html))
            /\ \A n \in Resolved(html) :
                 LET key == PERSONA_MAPPING[MatchPersona(html.cards[n].h3)].key
                     ch == html'.cards[n].avatar.children
                 IN  /\ Len(ch) = 1
                     /\ ch[1].kind = "img"
                     /\ \/ Globs(ch[1].src[3], key, "png")
                        \/ Globs(ch[1].src[3], key, "jpg") ]_vars

\* A written document two cards of which are bound to estate_inheritor, both
\* holding the img.
C16_Witness ==
    /\ op.name = "update_html_with_images"
    /\ op.wrote
    /\ Len(op.updated_personas) = 2
    /\ op.updated_personas[1].persona_key = "estate_inheritor"
    /\ op.updated_personas[2].persona_key = "estate_inheritor"
    /\ \A n \in DOMAIN html.cards : Len(ImagesIn(html.cards[n].avatar)) = 1

\* C17 (as claimed): every image validate_updates found whose file does not
\* exist, and every one whose alt is absent or empty, has its entry in issues
\* and makes the result invalid.
C17_IssuesInvalidate ==
    op.name = "validate_updates" =>
        \A n \in DOMAIN op.images_found :
            LET img == op.images_found[n]
            IN  /\ ~FileExists(img.src, files) =>
                      /\ ~op.valid
                      /\ \E k \in DOMAIN op.issues :
                            op.issues[k] = << "Image file not found", img.src >>
                /\ img.alt = << >> =>
                      /\ ~op.valid
                      /\ \E k \in DOMAIN op.issues :
                            op.issues[k] = << "Missing alt text for image", img.src >>

\* C18: validate_updates on a document none of whose avatars holds an img
\* reports valid = FALSE and no image found.
C18_UnpatchedIsInvalid ==
    ( /\ op.name = "validate_updates"
      /\ html # Absent
      /\ \A n \in DOMAIN html.cards : ImagesIn(html.cards[n].avatar) = << >> )
    => /\ ~op.valid
       /\ op.images_found = << >>

\* The verdict on a document of two cards that hold their placeholders.
C18_Witness ==
    /\ op.name = "validate_updates"
    /\ html # Absent
    /\ Len(html.cards) = 2
    /\ \A n \in DOMAIN html.cards : html.cards[n].avatar = Emoji
    /\ ~op.valid
    /\ op.issues = << << "No persona images found in HTML" >> >>

\* Whether the style section holds a rule named .persona-image.
RuleExists(doc) == \E n \in DOMAIN doc.css : doc.css[n] = ".persona-image"

\* C19 (as claimed): add_persona_image_css changes the document only when the
\* .persona-image rule is absent, the .persona-avatar rule is present and
\* dry_run is false, and then inserts the rule right after the anchor; when
\* the rule exists it returns true and changes nothing; when the rule is
\* absent and there is no anchor it returns false and changes nothing.
C19_EnsureStyleRule ==
    [][ (CssStep /\ html # Absent) =>
            /\ html' # html =>
                  /\ ~RuleExists(html) /\ AnchorPosition(html) # 0 /\ ~op'.dry_run
                  /\ html' = InsertRule(html, AnchorPosition(html))
            /\ RuleExists(html) => (op'.ret /\ html' = html)
            /\ (~RuleExists(html) /\ AnchorPosition(html) = 0) =>
                  (~op'.ret /\ html' = html) ]_vars

\* The files of the directory the glob of a persona matches.
Matching(persona_key) ==
    { n \in DOMAIN files : Globs(n, persona_key, "png") \/ Globs(n, persona_key, "jpg") }

\* C20: get_latest_image returns none when no png or jpg of the directory
\* starts with the key and an underscore, and otherwise one of those files,
\* none of which was modified later.
C20_LatestOfMatching ==
    op.name = "get_latest_image" =>
        IF Matching(op.persona_key) = {} THEN op.result = NoImage
        ELSE /\ op.result \in Matching(op.persona_key)
             /\ \A m \in Matching(op.persona_key) :
                  files[m].mtime <= files[op.result].mtime

\* A jpg returned although the directory lists an older png of the persona
\* first, next to a file of another persona.
C20_Witness ==
    /\ op.name = "get_latest_image"
    /\ op.result # NoImage
    /\ op.result.ext = "jpg"
    /\ Cardinality(Matching(op.persona_key)) = 2
    /\ Globs(op.listing[1], op.persona_key, "png")
    /\ \E n \in DOMAIN files : n \notin Matching(op.persona_key)

\* C21 (as claimed): with the directory unchanged, a call of get_latest_image
\* returns what the call before it returned for the same persona, whatever
\* the order in which the directory is listed.
C21_LatestIsDeterministic ==
    [][ ( /\ nops' = nops + 1
          /\ op.name = "get_latest_image"
          /\ op'.name = "get_latest_image"
          /\ op'.persona_key = op.persona_key
          /\ files' = files )
        => op'.result = op.result ]_vars

\* The seconds a time stamp stands for: the inverse of strftime.
strptime(timestamp) == timestamp[1] * 86400 + timestamp[2]

\* The key whose underscore-separated parts are parts, or "" when none is.
JoinKey(parts) ==
    IF \E k \in PersonaKeys : KeyParts(k) = parts
    THEN CHOOSE k \in PersonaKeys : KeyParts(k) = parts
    ELSE ""

\* A file name split at its time stamp: the last two parts are the date and
\* the time, what stands before them is the key.
ParseFilename(name) ==
    [ persona_key |-> JoinKey(SubSeq(name.stem, 1, Len(name.stem) - 2)),
      timestamp   |-> SubSeq(name.stem, Len(name.stem) - 1, Len(name.stem)),
      ext         |-> name.ext ]

\* C22: the file name of every result generate_consumer_image returns is
\* <key>_<date>_<time>.png; split at the time stamp it gives back the key that
\* was generated and a time not later than now, and so does every file of the
\* asset directory for some key of the registry.
C22_FilenameRoundTrip ==
    /\ (last.key \in PersonaKeys /\ last.raised = "none") =>
          LET p == ParseFilename(last.result.filename)
          IN  /\ Len(last.result.filename.stem) = Len(KeyParts(last.key)) + 2
              /\ p.persona_key = last.key
              /\ p.timestamp = last.result.timestamp
              /\ strptime(p.timestamp) <= clock
              /\ p.ext = "png"
    /\ \A n \in DOMAIN files :
          /\ ParseFilename(n).persona_key \in PersonaKeys
          /\ strptime(ParseFilename(n).timestamp) <= clock
          /\ n.ext = "png"

\* A result for the key of three parts, generated after the clock moved.
C22_Witness ==
    /\ last.key = "small_business_owner"
    /\ last.raised = "none"
    /\ ParseFilename(last.result.filename).persona_key = "small_business_owner"
    /\ strptime(last.result.timestamp) = 1
    /\ clock = 1
    /\ last.result.filename \in DOMAIN files

\* C27 (as claimed): a file of the asset directory that holds a verified image
\* is still there, with the content and the modification time it had, after
\* any later call of generate_consumer_image, also when that call reads the
\* same second from the clock.
C27_AssetsNeverOverwritten ==
    [][ \A n \in DOMAIN files :
            VerifyImage(files[n].data) =>
                /\ n \in DOMAIN files'
                /\ files'[n] = files[n] ]_vars

\* The cards of doc, by index, whose heading names a known persona.
Matched(doc) ==
    IF doc = Absent THEN {}
    ELSE { n \in DOMAIN doc.cards :
             doc.cards[n].h3 # NoElem /\ MatchPersona(doc.cards[n].h3) # 0 }

\* The matched cards whose persona has an image but which hold no avatar.
WithoutAvatar(doc) ==
    { n \in Matched(doc) :
        /\ HasAsset(PERSONA_MAPPING[MatchPersona(doc.cards[n].h3)].key)
        /\ doc.cards[n].avatar = NoAvatar }

\* C28 (as claimed): after a run that is no dry run, updated_personas,
\* missing_images and errors hold together as many entries as the document
\* has cards whose heading names a known persona.
C28_OneEntryPerMatchedCard ==
    [][ (UpdateStep /\ ~op'.dry_run /\ ~op'.raised) =>
            Len(op'.updated_personas) + Len(op'.missing_images) + Len(op'.errors)
                = Cardinality(Matched(html)) ]_vars

\* C28 (amended): that holds when index.html exists, each matched card going
\* to missing_images when its persona has no image (with or without avatar),
\* else to errors when it has no avatar, else to updated_personas, and the
\* other cards to none; when index.html does not exist errors holds the one
\* entry 'HTML file not found' although no card was matched.
C28_OneEntryPerMatchedCardOfDocument ==
    [][ (UpdateStep /\ ~op'.dry_run /\ ~op'.raised) =>
            IF html = Absent
            THEN /\ op'.errors = << << "HTML file not found" >> >>
                 /\ op'.updated_personas = << >>
                 /\ op'.missing_images = << >>
            ELSE /\ Len(op'.updated_personas) + Len(op'.missing_images)
                       + Len(op'.errors) = Cardinality(Matched(html))
                 /\ op'.missing_images = KeysInOrder(html, Unresolved(html))
                 /\ op'.errors =
                       [ k \in 1..Cardinality(WithoutAvatar(html)) |->
                           << "No avatar element found for",
                              KeysInOrder(html, WithoutAvatar(html))[k] >> ]
                 /\ Len(op'.updated_personas) = Cardinality(Resolved(html))
                 /\ Matched(html) = Unresolved(html) \cup WithoutAvatar(html)
                                      \cup Resolved(html) ]_vars

\* A written document of two matched cards, one updated and one without
\* avatar.
C28_Witness ==
    /\ op.name = "update_html_with_images"
    /\ ~op.dry_run
    /\ op.wrote
    /\ html # Absent
    /\ Len(html.cards) = 2
    /\ Len(op.updated_personas) = 1
    /\ Len(op.errors) = 1
    /\ Cardinality(Matched(html)) = 2

\* The backup with the latest time stamp in its name.
LatestBackup(bks) ==
    bks[CHOOSE t \in DOMAIN bks : \A u \in DOMAIN bks : strptime(u) <= strptime(t)]

\* C29 (as claimed): whenever a patch run writes the document, the most
\* recent backup is the document as it was on disk before that write.
C29_LatestBackupPrecedesWrite ==
    [][ (nops' = nops + 1 /\ (op'.wrote \/ html' # html)) =>
            /\ backups' # << >>
            /\ LatestBackup(backups') = html ]_vars

\* C30: validate_updates called right after a writing update_html_with_images,
\* the asset files still there and no card but the updated ones holding an
\* img, reports valid = TRUE and one image per updated card, in document
\* order, each with an alt that is not empty and a src that names a file
\* below the project root.
C30_PatchedDocumentValidates ==
    [][ ( /\ nops' = nops + 1
          /\ op'.name = "validate_updates"
          /\ op.name = "update_html_with_images" /\ op.wrote
          /\ files' = files
          /\ \A n \in DOMAIN html.cards \ Resolved(html) :
                ImagesIn(html.cards[n].avatar) = << >> )
        => /\ op'.valid
           /\ op'.issues = << >>
           /\ Len(op'.images_found) = Len(op.updated_personas)
           /\ \A k \in DOMAIN op'.images_found :
                /\ op'.images_found[k].alt # << >>
                /\ FileExists(op'.images_found[k].src, files)
                /\ op'.images_found[k].src
                     = get_web_image_path(op.updated_personas[k].image_path) ]_vars

\* The verdict on a document in which a run just replaced two placeholders,
\* one of which held an img without alt.
C30_Witness ==
    /\ nops = 2
    /\ op.name = "validate_updates"
    /\ op.valid
    /\ Len(op.images_found) = 2
    /\ backups # << >>
    /\ Cardinality(DOMAIN files) = 2
    /\ \E t \in DOMAIN backups :
          \E n \in DOMAIN backups[t].cards :
              backups[t].cards[n].avatar = Avatar(<< NoAlt(EstateImg) >>)

\* C25: a run of the tool with --validate changes neither the document nor
\* the backups, whatever the other flags, and its exit code is 0 when
\* validate_updates reports the document valid and 1 when it does not.
C25_ValidateOnly ==
    [][ (nops' = nops + 1 /\ op'.name = "main" /\ op'.validate) =>
            /\ html' = html
            /\ backups' = backups
            /\ op'.exit_code = (IF validate_updates(html, files).valid THEN 0 ELSE 1) ]_vars

\* A run with --validate and --add-css that found a patched document valid
\* and left its style section without the rule it could have inserted.
C25_Witness ==
    /\ op.name = "main"
    /\ op.validate /\ op.add_css /\ ~op.dry_run
    /\ op.exit_code = 0
    /\ html # Absent
    /\ ~HasImageRule(html)
    /\ AnchorPosition(html) # 0
    /\ backups # << >>

\* C26 (as claimed): the generation tool ends with a status that is not 0
\* only when no persona was generated, and the patching tool only when the
\* validation it was asked for failed or no card was updated.
C26_NonZeroOnlyWithoutSuccess ==
    /\ pc = "exit1" => Successful(results) = 0
    /\ (op.name = "main" /\ op.exit_code # 0) =>
          IF op.validate THEN ~validate_updates(html, files).valid
          ELSE op.updated = 0

\* C23 (as claimed): a request answered with 200 appends exactly one line to
\* the waitlist file and any other request appends none, the lines already
\* there staying as they are.
C23_OneLinePerAcceptedRequest ==
    [][ nreq' = nreq + 1 =>
            /\ Len(waitlist') = Len(waitlist) + (IF response'.status = 200 THEN 1 ELSE 0)
            /\ SubSeq(waitlist', 1, Len(waitlist)) = waitlist ]_vars

\* Whether a body carries no usable email: no JSON object, no 'email' field,
\* an 'email' that is no text, one that is empty or blank, or one without '@'
\* or without '.'.
MissingOrInvalid(body) ==
    \/ body.kind # "object"
    \/ "email" \notin DOMAIN body
    \/ Strip(body.email) = << >>
    \/ ~HasChar(Strip(body.email), "@")
    \/ ~HasChar(Strip(body.email), ".")

\* C24 (as claimed): a request without a usable email is answered 400 with
\* success false, and one with an accepted email 200 with success true unless
\* something unexpected happens, which alone is answered 500.
C24_StatusByEmail ==
    nreq > 0 =>
        /\ MissingOrInvalid(response.body) =>
              (response.status = 400 /\ ~response.success)
        /\ ~MissingOrInvalid(response.body) =>
              \/ response.status = 200 /\ response.success
              \/ response.status = 500 /\ ~response.success

====
